---------------------------- MODULE Spec2Model ----------------------------
(***************************************************************************)
(* The concurrent sweep phase of the old-space mark-sweep collector        *)
(* (runtime/vm/heap/sweeper.cc): GCSweeper::SweepPage,                     *)
(* GCSweeper::SweepLargePage and ConcurrentSweeperTask.                    *)
(*                                                                         *)
(* A page is a record: objs is the tiling of its object area (a sequence   *)
(* of objects, each a size in bytes and a mark bit), mem holds one entry   *)
(* per word of the object area saying what the word contains ("orig": what *)
(* the allocator wrote, "trap": the break instruction filler, "zap":       *)
(* Heap::kZapByte), used_in_bytes is the field SweepPage sets.             *)
(***************************************************************************)
EXTENDS Integers, Sequences, FiniteSets, TLC

(* Bounds of the model. *)
MaxObjs == 3
MaxObjWords == 2
MaxSweeps == 2
MaxPages == 3
MaxAppends == 1
MaxTasks == 2
MaxLivePages == 2
MaxAllocs == 1

(* Program constants. *)
kWordSizeLog2 == 3
kWordSize == 2 ^ kWordSizeLog2

NULL == 0

VARIABLES
  debug,      \* TRUE in a build with DEBUG defined (ASSERT and the zap fills)
  pages,      \* page id -> page record
  sw,         \* the frame of the GCSweeper call in progress
  freelist,   \* the calls FreeList::Free / FreeLocked received, in order
  entry,      \* one record per sweeper call so far: the page, its objs and
              \* the length of freelist when the call began
  calls,      \* number of sweeper calls that have returned to the caller
  phase,      \* PageSpace::phase()
  tasks,      \* PageSpace::tasks()
  lock,       \* the thread inside PageSpace::tasks_lock(), NULL when free
  lists,      \* the heads and tails of the two page lists of the old space
  task,       \* task id -> the ConcurrentSweeperTask and its position in Run
  mut         \* the mutator thread

sweepvars == <<sw, calls>>
spacevars == <<phase, tasks, lock, lists, task, mut>>
vars == <<debug, pages, sw, freelist, entry, calls,
          phase, tasks, lock, lists, task, mut>>

----------------------------------------------------------------------------
(* Object layout of a page. *)

RECURSIVE SumSizes(_, _)
SumSizes(objs, n) == IF n = 0 THEN 0 ELSE objs[n].size + SumSizes(objs, n - 1)

\* HeapPage::object_start(): page p's object area; the areas of two pages
\* never meet.
object_start(p) == p * (MaxObjs * MaxObjWords + 1) * kWordSize

\* HeapPage::object_end()
object_end(p, pg) == object_start(p) + SumSizes(pg.objs, Len(pg.objs))

\* RawObject::ToAddr of the i-th object of the tiling
AddrOf(start, objs, i) == start + SumSizes(objs, i - 1)

\* RawObject::FromAddr: the index of the object whose header is at addr, 0
\* when addr is not the address of an object header
FromAddr(start, objs, addr) ==
  IF \E i \in 1..Len(objs) : AddrOf(start, objs, i) = addr
    THEN CHOOSE i \in 1..Len(objs) : AddrOf(start, objs, i) = addr
    ELSE 0

\* index in mem of the word at addr
WordOf(start, addr) == ((addr - start) \div kWordSize) + 1


\* x >> kWordSizeLog2 and x << kWordSizeLog2 on intptr_t
ShiftRight(x, k) == x \div (2 ^ k)
ShiftLeft(x, k) == x * (2 ^ k)

----------------------------------------------------------------------------
(* GCSweeper::SweepPage, block by block.  Each operator maps a machine     *)
(* m = [f |-> frame, pg |-> page, fl |-> free list] to the machine after   *)
(* the block.  A read of a header at an address that holds none is         *)
(* undefined: the frame stops in pc = "undefined".                         *)

\* a call of RawObject::IsMarked on the header at addr, made by the block
\* named at: lines 34, 43, 87 and 98
IsMarked(addr, at) == [addr |-> addr, at |-> at]

Undefined(m) == [m EXCEPT !.f.pc = "undefined"]

\* lines 19-28: the locals before the loop
SweepPageEntry(p, pg, locked) ==
  [fn |-> "SweepPage", page |-> p, locked |-> locked, pc |-> "loop",
   is_executable |-> (pg.type = "kExecutable"),
   start |-> object_start(p), end |-> object_end(p, pg),
   current |-> object_start(p), free_end |-> 0, obj_size |-> 0,
   used_in_bytes |-> 0, words_to_end |-> 0, result |-> FALSE, steps |-> 0,
   mark_reads |-> <<>>]

\* SweepLoopHead with used_in_bytes = obj_size in place of +=
SweepLoopHead_AssignUsed(m) ==
  LET f == m.f
      i == FromAddr(f.start, m.pg.objs, f.current)
  IN IF ~(f.current < f.end) THEN [m EXCEPT !.f.pc = "exit"]
     ELSE IF i = 0 THEN Undefined(m)
     ELSE IF m.pg.objs[i].marked
       THEN [m EXCEPT !.pg.objs[i].marked = FALSE,
                      !.f.obj_size = m.pg.objs[i].size,
                      !.f.used_in_bytes = m.pg.objs[i].size,
                      !.f.current = @ + m.pg.objs[i].size,
                      !.f.mark_reads =
                         Append(@, IsMarked(f.current, "loop"))]
       ELSE [m EXCEPT !.f.free_end = f.current + m.pg.objs[i].size,
                      !.f.mark_reads =
                         Append(@, IsMarked(f.current, "loop")),
                      !.f.pc = "extend"]

\* SweepLoopHead without the call of ClearMarkBit
SweepLoopHead_NoClear(m) ==
  LET f == m.f
      i == FromAddr(f.start, m.pg.objs, f.current)
  IN IF ~(f.current < f.end) THEN [m EXCEPT !.f.pc = "exit"]
     ELSE IF i = 0 THEN Undefined(m)
     ELSE IF m.pg.objs[i].marked
       THEN [m EXCEPT !.f.obj_size = m.pg.objs[i].size,
                      !.f.used_in_bytes = @ + m.pg.objs[i].size,
                      !.f.current = @ + m.pg.objs[i].size,
                      !.f.mark_reads =
                         Append(@, IsMarked(f.current, "loop"))]
       ELSE [m EXCEPT !.f.free_end = f.current + m.pg.objs[i].size,
                      !.f.mark_reads =
                         Append(@, IsMarked(f.current, "loop")),
                      !.f.pc = "extend"]

\* lines 30-39 and 73: the loop test and the mark test of the object at
\* current; a marked object is cleared, counted and stepped over
SweepLoopHead(m) ==
  LET f == m.f
      i == FromAddr(f.start, m.pg.objs, f.current)
  IN IF ~(f.current < f.end) THEN [m EXCEPT !.f.pc = "exit"]
     ELSE IF i = 0 THEN Undefined(m)
     ELSE IF m.pg.objs[i].marked
       THEN [m EXCEPT !.pg.objs[i].marked = FALSE,
                      !.f.obj_size = m.pg.objs[i].size,
                      !.f.used_in_bytes = @ + m.pg.objs[i].size,
                      !.f.current = @ + m.pg.objs[i].size,
                      !.f.mark_reads =
                         Append(@, IsMarked(f.current, "loop"))]
       ELSE [m EXCEPT !.f.free_end = f.current + m.pg.objs[i].size,
                      !.f.mark_reads =
                         Append(@, IsMarked(f.current, "loop")),
                      !.f.pc = "extend"]

\* SweepExtendRun without the inner loop: every unmarked object is a free
\* block of its own
SweepExtendRun_NoCoalesce(m) == [m EXCEPT !.f.pc = "fill"]

\* lines 41-49: one iteration of the inner loop that extends the free block
SweepExtendRun(m) ==
  LET f == m.f
      j == FromAddr(f.start, m.pg.objs, f.free_end)
  IN IF ~(f.free_end < f.end) THEN [m EXCEPT !.f.pc = "fill"]
     ELSE IF j = 0 THEN Undefined(m)
     ELSE IF m.pg.objs[j].marked
       THEN [m EXCEPT !.f.mark_reads =
                         Append(@, IsMarked(f.free_end, "extend")),
                      !.f.pc = "fill"]
       ELSE [m EXCEPT !.f.mark_reads =
                         Append(@, IsMarked(f.free_end, "extend")),
                      !.f.free_end = @ + m.pg.objs[j].size]

\* lines 52-58: store value in every word of [cursor, end)
RECURSIVE FillWords(_, _, _, _, _)
FillWords(mem, start, cursor, end, value) ==
  IF ~(cursor < end) THEN mem
  ELSE FillWords(IF WordOf(start, cursor) \in DOMAIN mem
                   THEN [mem EXCEPT ![WordOf(start, cursor)] = value]
                   ELSE mem,
                 start, cursor + kWordSize, end, value)

\* line 61 and line 100: memset(addr, Heap::kZapByte, size)
Memset(mem, start, addr, size) ==
  [w \in DOMAIN mem |->
     IF start + (w - 1) * kWordSize < addr + size
        /\ addr < start + w * kWordSize
       THEN "zap" ELSE mem[w]]

\* SweepFillRun with the fill starting one word late
SweepFillRun_SkipFirstWord(m) ==
  LET f == m.f
      size == f.free_end - f.current
  IN [m EXCEPT !.f.obj_size = size,
               !.f.pc = "insert",
               !.pg.mem = IF f.is_executable
                            THEN FillWords(@, f.start, f.current + kWordSize,
                                           f.current + size, "trap")
                            ELSE IF debug
                              THEN Memset(@, f.start, f.current, size)
                              ELSE @]

\* SweepFillRun with the fill running one word past the free block
SweepFillRun_OneWordMore(m) ==
  LET f == m.f
      size == f.free_end - f.current
  IN [m EXCEPT !.f.obj_size = size,
               !.f.pc = "insert",
               !.pg.mem = IF f.is_executable
                            THEN FillWords(@, f.start, f.current,
                                           f.current + size + kWordSize,
                                           "trap")
                            ELSE IF debug
                              THEN Memset(@, f.start, f.current,
                                          size + kWordSize)
                              ELSE @]

\* lines 50-63: the size of the free block and its fill
SweepFillRun(m) ==
  LET f == m.f
      size == f.free_end - f.current
  IN [m EXCEPT !.f.obj_size = size,
               !.f.pc = "insert",
               !.pg.mem = IF f.is_executable
                            THEN FillWords(@, f.start, f.current,
                                           f.current + size, "trap")
                            ELSE IF debug
                              THEN Memset(@, f.start, f.current, size)
                              ELSE @]

\* SweepInsertRun without the test for a block that covers the whole page
SweepInsertRun_Always(m) ==
  LET f == m.f
  IN [m EXCEPT !.fl = Append(@, [addr |-> f.current,
                                 size |-> f.obj_size,
                                 call |-> IF f.locked THEN "FreeLocked"
                                                      ELSE "Free"]),
               !.f.current = @ + f.obj_size,
               !.f.pc = "loop"]

\* SweepInsertRun that gives the free list everything from current to the
\* end of the page
SweepInsertRun_ToPageEnd(m) ==
  LET f == m.f
  IN [m EXCEPT !.fl = IF (f.current # f.start) \/ (f.free_end # f.end)
                        THEN Append(@, [addr |-> f.current,
                                        size |-> f.end - f.current,
                                        call |-> IF f.locked THEN "FreeLocked"
                                                             ELSE "Free"])
                        ELSE @,
               !.f.current = @ + f.obj_size,
               !.f.pc = "loop"]

\* SweepInsertRun without current += obj_size behind a free block
SweepInsertRun_NoAdvance(m) ==
  LET f == m.f
  IN [m EXCEPT !.fl = IF (f.current # f.start) \/ (f.free_end # f.end)
                        THEN Append(@, [addr |-> f.current,
                                        size |-> f.obj_size,
                                        call |-> IF f.locked THEN "FreeLocked"
                                                             ELSE "Free"])
                        ELSE @,
               !.f.pc = "loop"]

\* lines 64-73: the free block goes to the free list unless it covers the
\* whole page; then the scan steps over it
SweepInsertRun(m) ==
  LET f == m.f
  IN [m EXCEPT !.fl = IF (f.current # f.start) \/ (f.free_end # f.end)
                        THEN Append(@, [addr |-> f.current,
                                        size |-> f.obj_size,
                                        call |-> IF f.locked THEN "FreeLocked"
                                                             ELSE "Free"])
                        ELSE @,
               !.f.current = @ + f.obj_size,
               !.f.pc = "loop"]

\* lines 75-78: ASSERT(current == end), set_used_in_bytes, the result
SweepExit(m) ==
  LET f == m.f
  IN IF debug /\ f.current # f.end THEN [m EXCEPT !.f.pc = "fatal"]
     ELSE [m EXCEPT !.pg.used_in_bytes = f.used_in_bytes,
                    !.f.result = (f.used_in_bytes # 0),
                    !.f.pc = "done"]

----------------------------------------------------------------------------
(* GCSweeper::SweepLargePage *)

\* lines 81-86: the locals
SweepLargePageEntry(p, pg) ==
  [fn |-> "SweepLargePage", page |-> p, locked |-> FALSE, pc |-> "primary",
   is_executable |-> FALSE,
   start |-> object_start(p), end |-> object_end(p, pg),
   current |-> object_start(p), free_end |-> 0, obj_size |-> 0,
   used_in_bytes |-> 0, words_to_end |-> 0, result |-> FALSE, steps |-> 0,
   mark_reads |-> <<>>]

\* SweepLargePrimary returning the words from the object to the page's end
SweepLargePrimary_ToPageEnd(m) ==
  LET f == m.f
      i == FromAddr(f.start, m.pg.objs, f.start)
      sized == [m EXCEPT !.f.current = f.start + m.pg.objs[i].size,
                         !.f.mark_reads =
                            Append(@, IsMarked(f.start, "primary")),
                         !.f.pc = IF debug THEN "fillers" ELSE "done"]
  IN IF i = 0 THEN Undefined(m)
     ELSE IF m.pg.objs[i].marked
       THEN [sized EXCEPT !.pg.objs[i].marked = FALSE,
                          !.f.words_to_end =
                             ShiftRight(f.end - f.start, kWordSizeLog2)]
       ELSE sized

\* lines 85-95: the primary object's mark decides words_to_end; a DEBUG
\* build goes on to the trailing fillers
SweepLargePrimary(m) ==
  LET f == m.f
      i == FromAddr(f.start, m.pg.objs, f.start)
      sized == [m EXCEPT !.f.current = f.start + m.pg.objs[i].size,
                         !.f.mark_reads =
                            Append(@, IsMarked(f.start, "primary")),
                         !.f.pc = IF debug THEN "fillers" ELSE "done"]
  IN IF i = 0 THEN Undefined(m)
     ELSE IF m.pg.objs[i].marked
       THEN [sized EXCEPT !.pg.objs[i].marked = FALSE,
                          !.f.words_to_end =
                             ShiftRight(m.pg.objs[i].size, kWordSizeLog2)]
       ELSE sized

\* lines 96-102: one trailing filler: it must not be marked, and is zapped
SweepLargeFiller(m) ==
  LET f == m.f
      i == FromAddr(f.start, m.pg.objs, f.current)
  IN IF ~(f.current < f.end) THEN [m EXCEPT !.f.pc = "done"]
     ELSE IF i = 0 THEN Undefined(m)
     ELSE IF m.pg.objs[i].marked
       THEN [m EXCEPT !.f.mark_reads =
                         Append(@, IsMarked(f.current, "fillers")),
                      !.f.pc = "fatal"]
       ELSE [m EXCEPT !.f.obj_size = m.pg.objs[i].size,
                      !.f.mark_reads =
                         Append(@, IsMarked(f.current, "fillers")),
                      !.pg.mem = Memset(@, f.start, f.current,
                                        m.pg.objs[i].size),
                      !.f.current = @ + m.pg.objs[i].size]

----------------------------------------------------------------------------
(* One block of the sweeper call in progress, and the call run to its end. *)

Running(f) == f.pc \in {"loop", "extend", "fill", "insert", "exit",
                        "primary", "fillers"}

SweepStep(m) ==
  LET n == CASE m.f.pc = "loop" -> SweepLoopHead(m)
             [] m.f.pc = "extend" -> SweepExtendRun(m)
             [] m.f.pc = "fill" -> SweepFillRun(m)
             [] m.f.pc = "insert" -> SweepInsertRun(m)
             [] m.f.pc = "exit" -> SweepExit(m)
             [] m.f.pc = "primary" -> SweepLargePrimary(m)
             [] m.f.pc = "fillers" -> SweepLargeFiller(m)
  IN [n EXCEPT !.f.steps = @ + 1]

RECURSIVE SweepRun(_)
SweepRun(m) == IF Running(m.f) THEN SweepRun(SweepStep(m)) ELSE m

\* GCSweeper::SweepPage(page, freelist, locked), from call to return
SweepPage(p, pg, fl, locked) ==
  SweepRun([f |-> SweepPageEntry(p, pg, locked), pg |-> pg, fl |-> fl])

\* GCSweeper::SweepLargePage(page), from call to return
SweepLargePage(p, pg, fl) ==
  SweepRun([f |-> SweepLargePageEntry(p, pg), pg |-> pg, fl |-> fl])

----------------------------------------------------------------------------
(* Pages the sweeper can be given. *)

Sizes == {w * kWordSize : w \in 1..MaxObjWords}
Objects == [size : Sizes, marked : BOOLEAN]
Tilings == UNION {[1..n -> Objects] : n \in 1..MaxObjs}
Words(objs) == SumSizes(objs, Len(objs)) \div kWordSize

NewPage(objs, type, large) ==
  [objs |-> objs, type |-> type, large |-> large, used_in_bytes |-> 0,
   mem |-> [w \in 1..Words(objs) |-> "orig"],
   next |-> NULL, state |-> "linked", truncated |-> 0]

\* Data and executable pages of the ordinary page list
OrdinaryPages ==
  {NewPage(objs, type, FALSE) :
     objs \in Tilings, type \in {"kData", "kExecutable"}}

\* Pages of the large page list: one primary object, then the fillers that
\* Array::MakeFixedLength leaves, which are never marked (lines 92-93)
LargePages ==
  {NewPage(objs, "kData", TRUE) :
     objs \in {t \in Tilings : \A i \in 2..Len(t) : ~t[i].marked}}

\* every object header of the page is as the allocator wrote it
HeadersIntact(p, pg) ==
  \A i \in 1..Len(pg.objs) :
     pg.mem[WordOf(object_start(p),
                   AddrOf(object_start(p), pg.objs, i))] = "orig"

IdleFrame ==
  [fn |-> "none", page |-> NULL, locked |-> FALSE, pc |-> "idle",
   is_executable |-> FALSE, start |-> 0, end |-> 0,
   current |-> 0, free_end |-> 0, obj_size |-> 0,
   used_in_bytes |-> 0, words_to_end |-> 0, result |-> FALSE, steps |-> 0,
   mark_reads |-> <<>>]

----------------------------------------------------------------------------
(* The old space around the sweeper: the phase and task count behind the   *)
(* monitor tasks_lock(), the two page lists, the sweeper tasks and a       *)
(* mutator thread.                                                         *)

Tasks == 1..MaxTasks
Mutator == MaxTasks + 1

\* the record of a sweeper call, taken when the call begins
AtEntry(p) == [page |-> p, objs |-> pages[p].objs, inserted |-> Len(freelist)]

NewTask ==
  [pc |-> "new", first_ |-> NULL, last_ |-> NULL,
   large_first_ |-> NULL, large_last_ |-> NULL,
   page |-> NULL, prev_page |-> NULL, next_page |-> NULL,
   words_to_end |-> 0, page_in_use |-> FALSE, attached |-> FALSE,
   log |-> <<>>]

NewMutator == [pc |-> "run", appended |-> 0, allocated |-> {}]

NoLists == [pages_ |-> NULL, pages_tail_ |-> NULL,
            large_pages_ |-> NULL, large_pages_tail_ |-> NULL]

\* no old space: the sweeper is called on a page directly
NoSpace ==
  /\ phase = "kDone"
  /\ tasks = 0
  /\ lock = NULL
  /\ lists = NoLists
  /\ task = [t \in Tasks |-> NewTask]
  /\ mut = NewMutator

\* a failed ASSERT of a DEBUG build has ended the process
Alive == \A t \in Tasks : task[t].pc # "fatal"

Event(t, op, page, prev, bytes) ==
  [op |-> op, page |-> page, prev |-> prev, bytes |-> bytes,
   held |-> (lock = t)]

----------------------------------------------------------------------------
(* The old-space coordinator's page-list primitives, which the task calls. *)

\* PageSpace::FreePage / FreeLargePage(page, prev): unlink page behind prev
\* (or at the head) and release it
Unlink(pgs, lst, page, prev, large) ==
  LET after == pgs[page].next
      unlinked == IF prev = NULL THEN pgs
                  ELSE [pgs EXCEPT ![prev].next = after]
  IN [pages |-> [unlinked EXCEPT ![page].state = "released"],
      lists |->
        IF large
          THEN [lst EXCEPT
                  !.large_pages_ = IF prev = NULL THEN after ELSE @,
                  !.large_pages_tail_ = IF @ = page THEN prev ELSE @]
          ELSE [lst EXCEPT
                  !.pages_ = IF prev = NULL THEN after ELSE @,
                  !.pages_tail_ = IF @ = page THEN prev ELSE @]]

\* PageSpace::TruncateLargePage(page, new_object_size_in_bytes)
Truncate(pgs, page, bytes) == [pgs EXCEPT ![page].truncated = bytes]

----------------------------------------------------------------------------
(* ConcurrentSweeperTask: the constructor and Run, statement by statement. *)

\* lines 214-224 and 116-127: SweepConcurrent makes the task; the member
\* initialisers, and the assertions that first and last are not NULL
SweepConcurrent(t, first, last, large_first, large_last) ==
  /\ Alive
  /\ task[t].pc = "new"
  /\ first # NULL
  /\ last # NULL
  /\ task' = [task EXCEPT ![t].pc = "ctor_lock",
                          ![t].first_ = first,
                          ![t].last_ = last,
                          ![t].large_first_ = large_first,
                          ![t].large_last_ = large_last]
  /\ UNCHANGED <<debug, pages, freelist, entry, sweepvars,
                 phase, tasks, lock, lists, mut>>

\* CtorLock without the MonitorLocker: the constructor does not enter the
\* monitor
CtorLock_NoMonitor(t) ==
  /\ Alive
  /\ task[t].pc = "ctor_lock"
  /\ task' = [task EXCEPT ![t].pc = "ctor"]
  /\ UNCHANGED <<debug, pages, freelist, entry, sweepvars,
                 phase, tasks, lock, lists, mut>>

\* line 128: MonitorLocker ml(old_space_->tasks_lock())
CtorLock(t) ==
  /\ Alive
  /\ task[t].pc = "ctor_lock"
  /\ lock = NULL
  /\ lock' = t
  /\ task' = [task EXCEPT ![t].pc = "ctor"]
  /\ UNCHANGED <<debug, pages, freelist, entry, sweepvars,
                 phase, tasks, lists, mut>>

\* line 129: set_tasks(tasks() + 1)
CtorSetTasks(t) ==
  /\ Alive
  /\ task[t].pc = "ctor"
  /\ tasks' = tasks + 1
  /\ task' = [task EXCEPT ![t].pc = "ctor_phase"]
  /\ UNCHANGED <<debug, pages, freelist, entry, sweepvars,
                 phase, lock, lists, mut>>

\* lines 130-131: set_phase(kSweeping), then the monitor is left and the
\* task goes to the thread pool (line 220)
CtorSetPhase(t) ==
  /\ Alive
  /\ task[t].pc = "ctor_phase"
  /\ phase' = "kSweeping"
  /\ lock' = NULL
  /\ task' = [task EXCEPT ![t].pc = "queued"]
  /\ UNCHANGED <<debug, pages, freelist, entry, sweepvars,
                 tasks, lists, mut>>

\* lines 133-144: a pool thread runs the task; it enters the isolate
RunEnter(t) ==
  /\ Alive
  /\ task[t].pc = "queued"
  /\ task' = [task EXCEPT ![t].pc = "large_loop",
                          ![t].attached = TRUE,
                          ![t].page = task[t].large_first_,
                          ![t].prev_page = NULL,
                          ![t].log = Append(@, Event(t, "Enter", NULL, NULL, 0))]
  /\ UNCHANGED <<debug, pages, freelist, entry, sweepvars,
                 phase, tasks, lock, lists, mut>>

\* lines 147-154 and 169-176: what the head of a walk's loop reads of page
\* p: its next link unless it is the last page of the range, then, in the
\* assertion of a DEBUG build, its type
HeadReads(t, p, last) ==
  (IF p = last THEN <<>> ELSE <<Event(t, "next", p, NULL, 0)>>)
  \o (IF debug THEN <<Event(t, "type", p, NULL, 0)>> ELSE <<>>)

\* LargeNext that goes on to the ordinary range without prev_page = NULL
LargeNext_NoReset(t) ==
  /\ Alive
  /\ task[t].pc = "large_loop"
  /\ task' =
       IF task[t].page = NULL
         THEN [task EXCEPT ![t].pc = "loop",
                           ![t].page = task[t].first_]
         ELSE IF debug /\ pages[task[t].page].type # "kData"
           THEN [task EXCEPT ![t].pc = "fatal"]
           ELSE [task EXCEPT ![t].pc = "large_sweep",
                             ![t].next_page =
                                IF task[t].page = task[t].large_last_
                                  THEN NULL
                                  ELSE pages[task[t].page].next,
                             ![t].log = @ \o HeadReads(t, task[t].page,
                                                       task[t].large_last_)]
  /\ UNCHANGED <<debug, pages, freelist, entry, sweepvars,
                 phase, tasks, lock, lists, mut>>

\* lines 145-154, and 165-166 when the large range is done
LargeNext(t) ==
  /\ Alive
  /\ task[t].pc = "large_loop"
  /\ task' =
       IF task[t].page = NULL
         THEN [task EXCEPT ![t].pc = "loop",
                           ![t].page = task[t].first_,
                           ![t].prev_page = NULL]
         ELSE IF debug /\ pages[task[t].page].type # "kData"
           THEN [task EXCEPT ![t].pc = "fatal"]
           ELSE [task EXCEPT ![t].pc = "large_sweep",
                             ![t].next_page =
                                IF task[t].page = task[t].large_last_
                                  THEN NULL
                                  ELSE pages[task[t].page].next,
                             ![t].log = @ \o HeadReads(t, task[t].page,
                                                       task[t].large_last_)]
  /\ UNCHANGED <<debug, pages, freelist, entry, sweepvars,
                 phase, tasks, lock, lists, mut>>

\* line 155
LargeSweep(t) ==
  /\ Alive
  /\ task[t].pc = "large_sweep"
  /\ LET p == task[t].page
         m == SweepLargePage(p, pages[p], freelist)
     IN /\ pages' = [pages EXCEPT ![p] = m.pg]
        /\ freelist' = m.fl
        /\ sw' = m.f
        /\ task' = [task EXCEPT
                      ![t].pc = IF m.f.pc = "done" THEN "large_free"
                                                  ELSE "fatal",
                      ![t].words_to_end = m.f.words_to_end,
                      ![t].log = Append(@, Event(t, "SweepLargePage", p,
                                                 NULL, 0))]
        /\ entry' = Append(entry, AtEntry(p))
  /\ calls' = calls + 1
  /\ UNCHANGED <<debug, phase, tasks, lock, lists, mut>>

\* LargeFree that passes words_to_end to TruncateLargePage as it is
LargeFree_NoShift(t) ==
  /\ Alive
  /\ task[t].pc = "large_free"
  /\ LET p == task[t].page
         bytes == task[t].words_to_end
         freed == Unlink(pages, lists, p, task[t].prev_page, TRUE)
     IN IF task[t].words_to_end = 0
          THEN /\ pages' = freed.pages
               /\ lists' = freed.lists
               /\ task' = [task EXCEPT
                             ![t].pc = "large_loop",
                             ![t].page = task[t].next_page,
                             ![t].log = Append(@, Event(t, "FreeLargePage", p,
                                                 task[t].prev_page, 0))]
          ELSE /\ pages' = Truncate(pages, p, bytes)
               /\ lists' = lists
               /\ task' = [task EXCEPT
                             ![t].pc = "large_loop",
                             ![t].prev_page = p,
                             ![t].page = task[t].next_page,
                             ![t].log = Append(@, Event(t, "TruncateLargePage",
                                                 p, NULL, bytes))]
  /\ UNCHANGED <<debug, freelist, entry, sweepvars, phase, tasks, lock, mut>>

\* lines 156-162
LargeFree(t) ==
  /\ Alive
  /\ task[t].pc = "large_free"
  /\ LET p == task[t].page
         bytes == ShiftLeft(task[t].words_to_end, kWordSizeLog2)
         freed == Unlink(pages, lists, p, task[t].prev_page, TRUE)
     IN IF task[t].words_to_end = 0
          THEN /\ pages' = freed.pages
               /\ lists' = freed.lists
               /\ task' = [task EXCEPT
                             ![t].pc = "large_loop",
                             ![t].page = task[t].next_page,
                             ![t].log = Append(@, Event(t, "FreeLargePage", p,
                                                 task[t].prev_page, 0))]
          ELSE /\ pages' = Truncate(pages, p, bytes)
               /\ lists' = lists
               /\ task' = [task EXCEPT
                             ![t].pc = "large_loop",
                             ![t].prev_page = p,
                             ![t].page = task[t].next_page,
                             ![t].log = Append(@, Event(t, "TruncateLargePage",
                                                 p, NULL, bytes))]
  /\ UNCHANGED <<debug, freelist, entry, sweepvars, phase, tasks, lock, mut>>

\* PageNext that reads page->next() of the last page too
PageNext_FollowNext(t) ==
  /\ Alive
  /\ task[t].pc = "loop"
  /\ task' =
       IF task[t].page = NULL
         THEN [task EXCEPT ![t].pc = "exit_isolate"]
         ELSE IF debug /\ pages[task[t].page].type # "kData"
           THEN [task EXCEPT ![t].pc = "fatal"]
           ELSE [task EXCEPT ![t].pc = "sweep",
                             ![t].next_page = pages[task[t].page].next,
                             ![t].log = @ \o HeadReads(t, task[t].page, NULL)]
  /\ UNCHANGED <<debug, pages, freelist, entry, sweepvars,
                 phase, tasks, lock, lists, mut>>

\* lines 167-176; when the range is done Run goes on to line 193
PageNext(t) ==
  /\ Alive
  /\ task[t].pc = "loop"
  /\ task' =
       IF task[t].page = NULL
         THEN [task EXCEPT ![t].pc = "exit_isolate"]
         ELSE IF debug /\ pages[task[t].page].type # "kData"
           THEN [task EXCEPT ![t].pc = "fatal"]
           ELSE [task EXCEPT ![t].pc = "sweep",
                             ![t].next_page =
                                IF task[t].page = task[t].last_
                                  THEN NULL
                                  ELSE pages[task[t].page].next,
                             ![t].log = @ \o HeadReads(t, task[t].page,
                                                       task[t].last_)]
  /\ UNCHANGED <<debug, pages, freelist, entry, sweepvars,
                 phase, tasks, lock, lists, mut>>

\* line 177
PageSweep(t) ==
  /\ Alive
  /\ task[t].pc = "sweep"
  /\ LET p == task[t].page
         m == SweepPage(p, pages[p], freelist, FALSE)
     IN /\ pages' = [pages EXCEPT ![p] = m.pg]
        /\ freelist' = m.fl
        /\ sw' = m.f
        /\ task' = [task EXCEPT
                      ![t].pc = IF m.f.pc = "done" THEN "free" ELSE "fatal",
                      ![t].page_in_use = m.f.result,
                      ![t].log = Append(@, Event(t, "SweepPage", p, NULL, 0))]
        /\ entry' = Append(entry, AtEntry(p))
  /\ calls' = calls + 1
  /\ UNCHANGED <<debug, phase, tasks, lock, lists, mut>>

\* PageFree with the test of page_in_use inverted
PageFree_Inverted(t) ==
  /\ Alive
  /\ task[t].pc = "free"
  /\ LET p == task[t].page
         freed == Unlink(pages, lists, p, task[t].prev_page, FALSE)
     IN IF ~task[t].page_in_use
          THEN /\ UNCHANGED <<pages, lists>>
               /\ task' = [task EXCEPT ![t].pc = "notify_lock",
                                       ![t].prev_page = p]
          ELSE /\ pages' = freed.pages
               /\ lists' = freed.lists
               /\ task' = [task EXCEPT
                             ![t].pc = "notify_lock",
                             ![t].log = Append(@, Event(t, "FreePage", p,
                                                 task[t].prev_page, 0))]
  /\ UNCHANGED <<debug, freelist, entry, sweepvars, phase, tasks, lock, mut>>

\* PageFree that goes on to the next page once it has released a page,
\* without the Notify
PageFree_NoNotifyAfterRelease(t) ==
  /\ Alive
  /\ task[t].pc = "free"
  /\ LET p == task[t].page
         freed == Unlink(pages, lists, p, task[t].prev_page, FALSE)
     IN IF task[t].page_in_use
          THEN /\ UNCHANGED <<pages, lists>>
               /\ task' = [task EXCEPT ![t].pc = "notify_lock",
                                       ![t].prev_page = p]
          ELSE /\ pages' = freed.pages
               /\ lists' = freed.lists
               /\ task' = [task EXCEPT
                             ![t].pc = "loop",
                             ![t].page = task[t].next_page,
                             ![t].log = Append(@, Event(t, "FreePage", p,
                                                 task[t].prev_page, 0))]
  /\ UNCHANGED <<debug, freelist, entry, sweepvars, phase, tasks, lock, mut>>

\* lines 178-182
PageFree(t) ==
  /\ Alive
  /\ task[t].pc = "free"
  /\ LET p == task[t].page
         freed == Unlink(pages, lists, p, task[t].prev_page, FALSE)
     IN IF task[t].page_in_use
          THEN /\ UNCHANGED <<pages, lists>>
               /\ task' = [task EXCEPT ![t].pc = "notify_lock",
                                       ![t].prev_page = p]
          ELSE /\ pages' = freed.pages
               /\ lists' = freed.lists
               /\ task' = [task EXCEPT
                             ![t].pc = "notify_lock",
                             ![t].log = Append(@, Event(t, "FreePage", p,
                                                 task[t].prev_page, 0))]
  /\ UNCHANGED <<debug, freelist, entry, sweepvars, phase, tasks, lock, mut>>

\* NotifyLock without the MonitorLocker: the signal is made outside the
\* monitor
NotifyLock_NoMonitor(t) ==
  /\ Alive
  /\ task[t].pc = "notify_lock"
  /\ task' = [task EXCEPT ![t].pc = "notify"]
  /\ UNCHANGED <<debug, pages, freelist, entry, sweepvars,
                 phase, tasks, lock, lists, mut>>

\* line 186: MonitorLocker ml(old_space_->tasks_lock())
NotifyLock(t) ==
  /\ Alive
  /\ task[t].pc = "notify_lock"
  /\ lock = NULL
  /\ lock' = t
  /\ task' = [task EXCEPT ![t].pc = "notify"]
  /\ UNCHANGED <<debug, pages, freelist, entry, sweepvars,
                 phase, tasks, lists, mut>>

\* Monitor::Notify / NotifyAll: a thread waiting on the monitor is woken
Woken(m) == IF m.pc = "waiting" THEN [m EXCEPT !.pc = "woken"] ELSE m

\* Notify with page = page->next() in place of page = next_page
Notify_NextOfPage(t) ==
  /\ Alive
  /\ task[t].pc = "notify"
  /\ mut' = Woken(mut)
  /\ lock' = NULL
  /\ task' = [task EXCEPT
                ![t].pc = "loop",
                ![t].page = IF task[t].page = task[t].last_
                              THEN NULL
                              ELSE pages[task[t].page].next,
                ![t].log = @ \o <<Event(t, "Notify", task[t].page, NULL, 0),
                                  Event(t, "next", task[t].page, NULL, 0)>>]
  /\ UNCHANGED <<debug, pages, freelist, entry, sweepvars,
                 phase, tasks, lists>>

\* lines 187-189: ml.Notify(), the monitor is left, page = next_page
Notify(t) ==
  /\ Alive
  /\ task[t].pc = "notify"
  /\ mut' = Woken(mut)
  /\ lock' = NULL
  /\ task' = [task EXCEPT
                ![t].pc = "loop",
                ![t].page = task[t].next_page,
                ![t].log = Append(@, Event(t, "Notify", task[t].page, NULL, 0))]
  /\ UNCHANGED <<debug, pages, freelist, entry, sweepvars,
                 phase, tasks, lists>>

\* ExitIsolate that leaves the thread in the isolate
ExitIsolate_StayAttached(t) ==
  /\ Alive
  /\ task[t].pc = "exit_isolate"
  /\ task' = [task EXCEPT
                ![t].pc = "done_lock",
                ![t].log = Append(@, Event(t, "Exit", NULL, NULL, 0))]
  /\ UNCHANGED <<debug, pages, freelist, entry, sweepvars,
                 phase, tasks, lock, lists, mut>>

\* line 193: Thread::ExitIsolateAsHelper
ExitIsolate(t) ==
  /\ Alive
  /\ task[t].pc = "exit_isolate"
  /\ task' = [task EXCEPT
                ![t].pc = "done_lock",
                ![t].attached = FALSE,
                ![t].log = Append(@, Event(t, "Exit", NULL, NULL, 0))]
  /\ UNCHANGED <<debug, pages, freelist, entry, sweepvars,
                 phase, tasks, lock, lists, mut>>

\* DoneLock without the MonitorLocker: the completion block does not enter
\* the monitor
DoneLock_NoMonitor(t) ==
  /\ Alive
  /\ task[t].pc = "done_lock"
  /\ task' = [task EXCEPT ![t].pc = "finish"]
  /\ UNCHANGED <<debug, pages, freelist, entry, sweepvars,
                 phase, tasks, lock, lists, mut>>

\* line 196: MonitorLocker ml(old_space_->tasks_lock())
DoneLock(t) ==
  /\ Alive
  /\ task[t].pc = "done_lock"
  /\ lock = NULL
  /\ lock' = t
  /\ task' = [task EXCEPT ![t].pc = "finish"]
  /\ UNCHANGED <<debug, pages, freelist, entry, sweepvars,
                 phase, tasks, lists, mut>>

\* line 197: set_tasks(tasks() - 1)
FinishSetTasks(t) ==
  /\ Alive
  /\ task[t].pc = "finish"
  /\ tasks' = tasks - 1
  /\ task' = [task EXCEPT ![t].pc = "finish_phase"]
  /\ UNCHANGED <<debug, pages, freelist, entry, sweepvars,
                 phase, lock, lists, mut>>

\* FinishSetPhase without the NotifyAll
FinishSetPhase_NoNotifyAll(t) ==
  /\ Alive
  /\ task[t].pc = "finish_phase"
  /\ IF debug /\ phase # "kSweeping"
       THEN /\ task' = [task EXCEPT ![t].pc = "fatal"]
            /\ UNCHANGED <<phase, lock, mut>>
       ELSE /\ phase' = "kDone"
            /\ mut' = mut
            /\ lock' = NULL
            /\ task' = [task EXCEPT ![t].pc = "done"]
  /\ UNCHANGED <<debug, pages, freelist, entry, sweepvars, tasks, lists>>

\* lines 198-201: ASSERT(phase == kSweeping), set_phase(kDone), NotifyAll,
\* and the monitor is left
FinishSetPhase(t) ==
  /\ Alive
  /\ task[t].pc = "finish_phase"
  /\ IF debug /\ phase # "kSweeping"
       THEN /\ task' = [task EXCEPT ![t].pc = "fatal"]
            /\ UNCHANGED <<phase, lock, mut>>
       ELSE /\ phase' = "kDone"
            /\ mut' = Woken(mut)
            /\ lock' = NULL
            /\ task' = [task EXCEPT
                          ![t].pc = "done",
                          ![t].log = Append(@, Event(t, "NotifyAll", NULL,
                                                     NULL, 0))]
  /\ UNCHANGED <<debug, pages, freelist, entry, sweepvars, tasks, lists>>

TaskNext(t) ==
  \/ CtorLock(t)
  \/ CtorSetTasks(t)
  \/ CtorSetPhase(t)
  \/ RunEnter(t)
  \/ LargeNext(t)
  \/ LargeSweep(t)
  \/ LargeFree(t)
  \/ PageNext(t)
  \/ PageSweep(t)
  \/ PageFree(t)
  \/ NotifyLock(t)
  \/ Notify(t)
  \/ ExitIsolate(t)
  \/ DoneLock(t)
  \/ FinishSetTasks(t)
  \/ FinishSetPhase(t)

----------------------------------------------------------------------------
(* The mutator: it looks at the phase under the monitor and waits on the   *)
(* monitor while the sweep is going on, and it allocates new pages.        *)

\* the mutator enters the monitor (also when it comes back from Wait)
MutLock ==
  /\ Alive
  /\ mut.pc \in {"run", "woken"}
  /\ lock = NULL
  /\ lock' = Mutator
  /\ mut' = [mut EXCEPT !.pc = "locked"]
  /\ UNCHANGED <<debug, pages, freelist, entry, sweepvars,
                 phase, tasks, lists, task>>

\* it reads tasks() and phase(); while the phase is kSweeping it waits,
\* which leaves the monitor
MutObserve ==
  /\ Alive
  /\ mut.pc = "locked"
  /\ mut' = [mut EXCEPT !.pc = IF phase = "kSweeping" THEN "waiting"
                                                       ELSE "run"]
  /\ lock' = NULL
  /\ UNCHANGED <<debug, pages, freelist, entry, sweepvars,
                 phase, tasks, lists, task>>

Shape(marks) ==
  [i \in 1..Len(marks) |-> [size |-> 2 * kWordSize, marked |-> marks[i]]]

\* once a sweep has been started the mutator may allocate a new page, which
\* goes behind the tail of its list
MutAppend(large) ==
  /\ Alive
  /\ mut.pc = "run"
  /\ mut.appended < MaxAppends
  /\ \E t \in Tasks : task[t].pc # "new"
  /\ LET new == Cardinality(DOMAIN pages) + 1
         tail == IF large THEN lists.large_pages_tail_ ELSE lists.pages_tail_
         fresh == NewPage(Shape(<<FALSE>>), "kData", large)
         linked == IF tail = NULL THEN pages
                   ELSE [pages EXCEPT ![tail].next = new]
     IN /\ pages' = [p \in DOMAIN pages \cup {new} |->
                       IF p = new THEN fresh ELSE linked[p]]
        /\ lists' =
             IF large
               THEN [lists EXCEPT
                       !.large_pages_ = IF tail = NULL THEN new ELSE @,
                       !.large_pages_tail_ = new]
               ELSE [lists EXCEPT
                       !.pages_ = IF tail = NULL THEN new ELSE @,
                       !.pages_tail_ = new]
  /\ mut' = [mut EXCEPT !.appended = @ + 1]
  /\ UNCHANGED <<debug, freelist, entry, sweepvars, phase, tasks, lock, task>>

MutNext ==
  \/ MutLock
  \/ MutObserve
  \/ \E large \in BOOLEAN : MutAppend(large)

----------------------------------------------------------------------------
(* The old space when marking has finished: up to MaxPages pages, at least *)
(* one of them in the ordinary list.  The walk of a task depends on a page *)
(* through the result of its sweep only, so the pages are of a few shapes: *)
(* nothing marked, everything marked, and marked and unmarked objects      *)
(* mixed.                                                                  *)

OrdinaryShapes ==
  {Shape(<<FALSE, FALSE>>), Shape(<<TRUE>>), Shape(<<FALSE, TRUE, FALSE>>)}

LargeShapes == {Shape(<<FALSE>>), Shape(<<TRUE>>), Shape(<<TRUE, FALSE>>)}

InitSpace ==
  /\ debug \in BOOLEAN
  /\ \E n \in 1..MaxPages : \E nl \in 0..(MaxPages - n) :
       \E o \in [1..n -> OrdinaryShapes] :
         \E l \in [(n + 1)..(n + nl) -> LargeShapes] :
           /\ pages =
                [p \in 1..(n + nl) |->
                   IF p <= n
                     THEN [NewPage(o[p], "kData", FALSE) EXCEPT
                             !.next = IF p < n THEN p + 1 ELSE NULL]
                     ELSE [NewPage(l[p], "kData", TRUE) EXCEPT
                             !.next = IF p < n + nl THEN p + 1 ELSE NULL]]
           /\ lists = [pages_ |-> 1, pages_tail_ |-> n,
                       large_pages_ |-> IF nl > 0 THEN n + 1 ELSE NULL,
                       large_pages_tail_ |-> IF nl > 0 THEN n + nl ELSE NULL]
  /\ sw = IdleFrame
  /\ freelist = <<>>
  /\ entry = <<>>
  /\ calls = 0
  /\ phase = "kMarking"
  /\ tasks = 0
  /\ lock = NULL
  /\ task = [t \in Tasks |-> NewTask]
  /\ mut = NewMutator

\* the pages that were in the lists when marking finished
Snapshot == 1..(Cardinality(DOMAIN pages) - mut.appended)
OrdinarySnapshot == {p \in Snapshot : ~pages[p].large}
LargeSnapshot == {p \in Snapshot : pages[p].large}
Max(S) == CHOOSE x \in S : \A y \in S : y <= x
Min(S) == CHOOSE x \in S : \A y \in S : x <= y

\* the collector starts the one sweep of the cycle over both lists
LaunchCycle ==
  /\ \A t \in Tasks : task[t].pc = "new"
  /\ SweepConcurrent(1, Min(OrdinarySnapshot), Max(OrdinarySnapshot),
                     IF LargeSnapshot = {} THEN NULL ELSE Min(LargeSnapshot),
                     IF LargeSnapshot = {} THEN NULL ELSE Max(LargeSnapshot))

\* the collector starts task t over the ordinary pages from the first one
\* that no task has been given up to last; the first task also gets the
\* large pages
LaunchRange(t, last) ==
  LET given == {task[u].last_ : u \in {u \in Tasks : task[u].pc # "new"}}
      first == IF given = {} THEN Min(OrdinarySnapshot) ELSE Max(given) + 1
  IN /\ \A u \in Tasks : (u < t) <=> (task[u].pc # "new")
     /\ first \in OrdinarySnapshot
     /\ last \in OrdinarySnapshot
     /\ first <= last
     /\ SweepConcurrent(t, first, last,
                        IF t > 1 \/ LargeSnapshot = {} THEN NULL
                                                      ELSE Min(LargeSnapshot),
                        IF t > 1 \/ LargeSnapshot = {} THEN NULL
                                                      ELSE Max(LargeSnapshot))

NextTask ==
  \/ LaunchCycle
  \/ \E t \in Tasks : TaskNext(t)
  \/ MutNext

\* one sweep task in a collection cycle
SpecTask == InitSpace /\ [][NextTask]_vars

NextMulti ==
  \/ \E t \in Tasks : \E last \in DOMAIN pages : LaunchRange(t, last)
  \/ \E t \in Tasks : TaskNext(t)
  \/ MutLock
  \/ MutObserve

\* several sweep tasks over disjoint ranges of the ordinary pages, and a
\* mutator that watches the phase
SpecMulti == InitSpace /\ [][NextMulti]_vars

----------------------------------------------------------------------------
(* The task with the calls of SweepLargePage (line 155) and SweepPage (line *)
(* 177) taken block by block, so that the other threads see the page and   *)
(* the free list while the scan of the page is going on.                   *)

\* HeapPage::Of: the page whose object area holds addr
PageOf(addr) == addr \div ((MaxObjs * MaxObjWords + 1) * kWordSize)

\* line 177, lines 19-28: the call begins
PageSweepCall(t) ==
  /\ Alive
  /\ task[t].pc = "sweep"
  /\ sw' = SweepPageEntry(task[t].page, pages[task[t].page], FALSE)
  /\ entry' = Append(entry, AtEntry(task[t].page))
  /\ task' = [task EXCEPT ![t].pc = "sweeping"]
  /\ UNCHANGED <<debug, pages, freelist, calls,
                 phase, tasks, lock, lists, mut>>

\* line 155, lines 81-86: the call begins
LargeSweepCall(t) ==
  /\ Alive
  /\ task[t].pc = "large_sweep"
  /\ sw' = SweepLargePageEntry(task[t].page, pages[task[t].page])
  /\ entry' = Append(entry, AtEntry(task[t].page))
  /\ task' = [task EXCEPT ![t].pc = "large_sweeping"]
  /\ UNCHANGED <<debug, pages, freelist, calls,
                 phase, tasks, lock, lists, mut>>

\* lines 30-78 and 85-104: one block of the call in progress
SweepBlock(t) ==
  /\ Alive
  /\ task[t].pc \in {"sweeping", "large_sweeping"}
  /\ Running(sw)
  /\ LET m == SweepStep([f |-> sw, pg |-> pages[sw.page], fl |-> freelist])
     IN /\ sw' = m.f
        /\ pages' = [pages EXCEPT ![sw.page] = m.pg]
        /\ freelist' = m.fl
  /\ UNCHANGED <<debug, entry, calls, phase, tasks, lock, lists, task, mut>>

\* line 155: the call returns words_to_end
LargeSweepReturn(t) ==
  /\ Alive
  /\ task[t].pc = "large_sweeping"
  /\ ~Running(sw)
  /\ task' = [task EXCEPT
                ![t].pc = IF sw.pc = "done" THEN "large_free" ELSE "fatal",
                ![t].words_to_end = sw.words_to_end,
                ![t].log = Append(@, Event(t, "SweepLargePage", task[t].page,
                                           NULL, 0))]
  /\ calls' = calls + 1
  /\ UNCHANGED <<debug, pages, sw, freelist, entry,
                 phase, tasks, lock, lists, mut>>

\* line 177: the call returns page_in_use
PageSweepReturn(t) ==
  /\ Alive
  /\ task[t].pc = "sweeping"
  /\ ~Running(sw)
  /\ task' = [task EXCEPT
                ![t].pc = IF sw.pc = "done" THEN "free" ELSE "fatal",
                ![t].page_in_use = sw.result,
                ![t].log = Append(@, Event(t, "SweepPage", task[t].page,
                                           NULL, 0))]
  /\ calls' = calls + 1
  /\ UNCHANGED <<debug, pages, sw, freelist, entry,
                 phase, tasks, lock, lists, mut>>

ScanNext(t) ==
  \/ CtorLock(t)
  \/ CtorSetTasks(t)
  \/ CtorSetPhase(t)
  \/ RunEnter(t)
  \/ LargeNext(t)
  \/ LargeSweepCall(t)
  \/ LargeSweepReturn(t)
  \/ LargeFree(t)
  \/ PageNext(t)
  \/ PageSweepCall(t)
  \/ SweepBlock(t)
  \/ PageSweepReturn(t)
  \/ PageFree(t)
  \/ NotifyLock(t)
  \/ Notify(t)
  \/ ExitIsolate(t)
  \/ DoneLock(t)
  \/ FinishSetTasks(t)
  \/ FinishSetPhase(t)

NextScan ==
  \/ LaunchCycle
  \/ \E t \in Tasks : ScanNext(t)
  \/ MutLock
  \/ MutObserve

\* one sweep task whose scan of a page the mutator can see in progress
SpecScan == InitSpace /\ [][NextScan]_vars

\* The scheduling the sweep relies on: the thread pool runs a task it was
\* given and the task's thread keeps taking steps; a thread that asks for
\* the monitor gets it if it is free again and again; a mutator inside the
\* monitor leaves it, and a mutator woken from Wait takes the monitor again.
Fairness ==
  /\ SF_vars(\E t \in Tasks : ScanNext(t))
  /\ WF_vars(MutObserve)
  /\ SF_vars(MutLock /\ mut.pc = "woken")

NextLive ==
  \/ NextScan
  \/ \E large \in BOOLEAN : MutAppend(large)

\* the old space with at most MaxLivePages pages when marking has finished
InitLive == InitSpace /\ Cardinality(DOMAIN pages) <= MaxLivePages

\* one sweep task in a collection cycle and a mutator that appends pages,
\* under fair scheduling
SpecLive == InitLive /\ [][NextLive]_vars /\ Fairness

\* The mutator allocates from the free list: it takes a range the sweeper
\* has handed over, the k-th, and writes a new object into it.  The free
\* list has a lock of its own, so this needs no monitor.
MutAllocate(k) ==
  /\ Alive
  /\ mut.pc = "run"
  /\ Cardinality(mut.allocated) < MaxAllocs
  /\ k \in 1..Len(freelist)
  /\ k \notin mut.allocated
  /\ LET r == freelist[k]
         p == PageOf(r.addr)
     IN pages' = [pages EXCEPT
                    ![p].mem = [w \in DOMAIN @ |->
                       IF /\ r.addr < object_start(p) + w * kWordSize
                          /\ object_start(p) + (w - 1) * kWordSize
                               < r.addr + r.size
                         THEN "alloc" ELSE @[w]]]
  /\ mut' = [mut EXCEPT !.allocated = @ \cup {k}]
  /\ UNCHANGED <<debug, freelist, entry, sweepvars, phase, tasks, lock,
                 lists, task>>

NextAlloc ==
  \/ NextScan
  \/ \E k \in 1..(MaxPages * MaxObjs) : MutAllocate(k)

\* one sweep task whose scan goes block by block, and a mutator that
\* allocates from the free list while the scan is going on
SpecAlloc == InitLive /\ [][NextAlloc]_vars

----------------------------------------------------------------------------
(* Spec: a caller that hands one page to the sweeper, block by block, and  *)
(* sweeps the page again once the call has returned.                       *)

ThePage == CHOOSE p \in DOMAIN pages : TRUE

Init ==
  /\ debug \in BOOLEAN
  /\ \E pg \in OrdinaryPages \cup LargePages : pages = [p \in {1} |-> pg]
  /\ sw = IdleFrame
  /\ freelist = <<>>
  /\ entry = <<>>
  /\ calls = 0
  /\ NoSpace

Machine == [f |-> sw, pg |-> pages[ThePage], fl |-> freelist]

Becomes(m) ==
  /\ sw' = m.f
  /\ pages' = [pages EXCEPT ![m.f.page] = m.pg]
  /\ freelist' = m.fl
  /\ UNCHANGED <<debug, entry, calls>>
  /\ UNCHANGED spacevars

\* The caller gives the sweeper a page whose object area is tiled by object
\* headers.  The fill of a garbage run (lines 51-62, line 100) overwrites
\* the headers inside the run, and nothing in this file writes them again,
\* so a page is swept a second time only while its headers are intact.
CallSweepPage ==
  /\ sw.pc = "idle"
  /\ calls < MaxSweeps
  /\ ~pages[ThePage].large
  /\ HeadersIntact(ThePage, pages[ThePage])
  /\ \E locked \in BOOLEAN :
        sw' = SweepPageEntry(ThePage, pages[ThePage], locked)
  /\ entry' = Append(entry, AtEntry(ThePage))
  /\ UNCHANGED <<debug, pages, freelist, calls>>
  /\ UNCHANGED spacevars

CallSweepLargePage ==
  /\ sw.pc = "idle"
  /\ calls < MaxSweeps
  /\ pages[ThePage].large
  /\ HeadersIntact(ThePage, pages[ThePage])
  /\ sw' = SweepLargePageEntry(ThePage, pages[ThePage])
  /\ entry' = Append(entry, AtEntry(ThePage))
  /\ UNCHANGED <<debug, pages, freelist, calls>>
  /\ UNCHANGED spacevars

LoopHead == sw.pc = "loop" /\ Becomes(SweepStep(Machine))
ExtendRun == sw.pc = "extend" /\ Becomes(SweepStep(Machine))
FillRun == sw.pc = "fill" /\ Becomes(SweepStep(Machine))
InsertRun == sw.pc = "insert" /\ Becomes(SweepStep(Machine))
Exit == sw.pc = "exit" /\ Becomes(SweepStep(Machine))
LargePrimary == sw.pc = "primary" /\ Becomes(SweepStep(Machine))
LargeFiller == sw.pc = "fillers" /\ Becomes(SweepStep(Machine))

Return ==
  /\ sw.pc = "done"
  /\ sw' = [sw EXCEPT !.pc = "idle"]
  /\ calls' = calls + 1
  /\ UNCHANGED <<debug, pages, freelist, entry>>
  /\ UNCHANGED spacevars

Next ==
  \/ CallSweepPage
  \/ CallSweepLargePage
  \/ LoopHead
  \/ ExtendRun
  \/ FillRun
  \/ InsertRun
  \/ Exit
  \/ LargePrimary
  \/ LargeFiller
  \/ Return

Spec == Init /\ [][Next]_vars

----------------------------------------------------------------------------
(* What a sweep is expected to do, stated on the page as it was on entry.  *)

\* the call in progress (or the last one): the page and free list on entry
ThisEntry == entry[Len(entry)]
InsertedByCall == SubSeq(freelist, ThisEntry.inserted + 1, Len(freelist))
SweptPage == sw.fn = "SweepPage" /\ sw.pc = "done"
SweptLargePage == sw.fn = "SweepLargePage" /\ sw.pc = "done"

RECURSIVE MarkedBytes(_, _)
MarkedBytes(objs, n) ==
  IF n = 0 THEN 0
  ELSE (IF objs[n].marked THEN objs[n].size ELSE 0) + MarkedBytes(objs, n - 1)

\* the maximal runs <<i, j>> of adjacent unmarked objects of a tiling
GarbageRuns(objs) ==
  {r \in (1..Len(objs)) \X (1..Len(objs)) :
     /\ r[1] <= r[2]
     /\ \A k \in r[1]..r[2] : ~objs[k].marked
     /\ r[1] = 1 \/ objs[r[1] - 1].marked
     /\ r[2] = Len(objs) \/ objs[r[2] + 1].marked}

RunAddr(objs, r) == AddrOf(object_start(ThePage), objs, r[1])
RunSize(objs, r) == SumSizes(objs, r[2]) - SumSizes(objs, r[1] - 1)
RunWords(objs, r) ==
  {w \in 1..Words(objs) :
     /\ SumSizes(objs, r[1] - 1) < w * kWordSize
     /\ w * kWordSize <= SumSizes(objs, r[2])}

\* the runs that do not cover the whole object area
PartialRuns(objs) == {r \in GarbageRuns(objs) : r # <<1, Len(objs)>>}

(* C1: SweepPage of a tiled ordinary page never reads a header where there *)
(* is none and never fails its assertion, returns within 4n+2 blocks for a *)
(* page of n objects, and on return the scan position is exactly end and   *)
(* the page's used_in_bytes is the total size of the objects that were     *)
(* marked when the sweep began.                                            *)
C1_ScanLandsOnEndAndCountsLive ==
  /\ sw.pc \notin {"fatal", "undefined"}
  /\ sw.fn = "SweepPage" =>
       /\ sw.current <= sw.end
       /\ sw.steps <= 4 * Len(ThisEntry.objs) + 2
       /\ sw.pc = "done" =>
            /\ sw.current = sw.end
            /\ pages[ThePage].used_in_bytes =
                 MarkedBytes(ThisEntry.objs, Len(ThisEntry.objs))

C1_Witness ==
  /\ SweptPage
  /\ Len(ThisEntry.objs) >= 3
  /\ \E i, j \in 1..Len(ThisEntry.objs) :
        ThisEntry.objs[i].marked /\ ~ThisEntry.objs[j].marked
  /\ pages[ThePage].used_in_bytes > 0

(* C2: when SweepPage or SweepLargePage has returned, no object of the     *)
(* page is marked; a second sweep of the page clears nothing (the objects  *)
(* stay as they were on its entry) and records used_in_bytes = 0.          *)
C2_NoMarkAfterSweep ==
  /\ (SweptPage \/ SweptLargePage) =>
       \A i \in 1..Len(pages[ThePage].objs) : ~pages[ThePage].objs[i].marked
  /\ Len(entry) >= 2 =>
       /\ pages[ThePage].objs = ThisEntry.objs
       /\ sw.pc = "done" => /\ pages[ThePage].used_in_bytes = 0
                            /\ sw.words_to_end = 0
                            /\ ~sw.result

C2_Witness ==
  /\ SweptPage
  /\ Len(entry) = 2
  /\ \E i \in 1..Len(entry[1].objs) : entry[1].objs[i].marked
  /\ pages[ThePage].used_in_bytes = 0

(* C3: when SweepPage returns, the insertions it made are exactly the      *)
(* maximal runs of unmarked objects that do not cover the whole object     *)
(* area, one insertion per run (address of the run's first object, total   *)
(* size of the run), in address order; no two inserted ranges overlap or   *)
(* touch.                                                                  *)
C3_OneInsertionPerRun ==
  SweptPage =>
    LET objs == ThisEntry.objs
        ins == InsertedByCall
    IN /\ Len(ins) = Cardinality(PartialRuns(objs))
       /\ \A r \in PartialRuns(objs) :
             \E k \in 1..Len(ins) : /\ ins[k].addr = RunAddr(objs, r)
                                    /\ ins[k].size = RunSize(objs, r)
       /\ \A k \in 1..Len(ins) : \A l \in 1..Len(ins) :
             k < l => ins[k].addr + ins[k].size < ins[l].addr

\* the page [A marked 16B, B unmarked 16B, C marked 16B] at X
C3_Witness ==
  /\ SweptPage
  /\ ThisEntry.objs = << [size |-> 16, marked |-> TRUE],
                         [size |-> 16, marked |-> FALSE],
                         [size |-> 16, marked |-> TRUE] >>
  /\ pages[ThePage].used_in_bytes = 32
  /\ Len(freelist) = 1
  /\ freelist[1].addr = object_start(ThePage) + 16
  /\ freelist[1].size = 16
  /\ sw.result

(* C4: when SweepPage returns: a page with no marked object gives          *)
(* result = FALSE and no insertion; result = FALSE comes with no insertion *)
(* by this call; result = TRUE comes with a marked object on entry.        *)
C4_EmptyPageNotInserted ==
  SweptPage =>
    LET objs == ThisEntry.objs
        anyMarked == \E i \in 1..Len(objs) : objs[i].marked
    IN /\ ~anyMarked => (~sw.result /\ InsertedByCall = <<>>)
       /\ ~sw.result => InsertedByCall = <<>>
       /\ sw.result => anyMarked

C4_Witness ==
  /\ SweptPage
  /\ Len(entry) = 1
  /\ Len(ThisEntry.objs) >= 2
  /\ \A i \in 1..Len(ThisEntry.objs) : ~ThisEntry.objs[i].marked
  /\ ~sw.result
  /\ freelist = <<>>

(* C5: SweepLargePage returns 0 exactly when the primary object was        *)
(* unmarked; for a marked primary object it returns that object's size in  *)
(* words, which is positive, whatever fillers follow; it never inserts     *)
(* into the free list.                                                     *)
C5_LargePageWordsToEnd ==
  sw.fn = "SweepLargePage" =>
    /\ InsertedByCall = <<>>
    /\ sw.pc = "done" =>
         LET primary == ThisEntry.objs[1]
         IN /\ (sw.words_to_end = 0) <=> ~primary.marked
            /\ primary.marked =>
                 /\ sw.words_to_end * kWordSize = primary.size
                 /\ sw.words_to_end > 0

C5_Witness ==
  /\ SweptLargePage
  /\ ThisEntry.objs[1].marked
  /\ Len(ThisEntry.objs) >= 3
  /\ sw.words_to_end = ThisEntry.objs[1].size \div kWordSize

(* C8: on an executable page, every range SweepPage has handed to the free *)
(* list is already all break-instruction filler; when SweepPage returns,   *)
(* every word of every garbage run (a run covering the whole page too) is  *)
(* the filler and no other word is.                                        *)
C8_ExecutableRunsTrapped ==
  (sw.fn = "SweepPage" /\ sw.is_executable) =>
    LET objs == ThisEntry.objs
        mem == pages[ThePage].mem
        ins == InsertedByCall
    IN /\ \A k \in 1..Len(ins) :
             \A w \in 1..Words(objs) :
               (/\ ins[k].addr < sw.start + w * kWordSize
                /\ sw.start + (w - 1) * kWordSize < ins[k].addr + ins[k].size)
               => mem[w] = "trap"
       /\ sw.pc = "done" =>
            \A w \in 1..Words(objs) :
              (mem[w] = "trap") <=>
                 (\E r \in GarbageRuns(objs) : w \in RunWords(objs, r))

C8_Witness ==
  /\ SweptPage
  /\ sw.is_executable
  /\ Len(InsertedByCall) >= 1
  /\ \E i \in 1..Len(ThisEntry.objs) :
        /\ ThisEntry.objs[i].marked
        /\ ThisEntry.objs[i].size = 2 * kWordSize
  /\ \E w \in DOMAIN pages[ThePage].mem : pages[ThePage].mem[w] = "trap"

----------------------------------------------------------------------------
(* The sweep task in the old space. *)

\* what the sweeper found when it began to sweep page p
Swept(p) == \E k \in 1..Len(entry) : entry[k].page = p
EntryOf(p) == entry[CHOOSE k \in 1..Len(entry) : entry[k].page = p]
HadMarked(p) == \E i \in 1..Len(EntryOf(p).objs) : EntryOf(p).objs[i].marked
PrimaryMarked(p) == EntryOf(p).objs[1].marked

\* the events of task t with one of the operations ops on page p
EventsOf(t, ops, p) ==
  {i \in 1..Len(task[t].log) :
     task[t].log[i].op \in ops /\ task[t].log[i].page = p}

Sweeps == {"SweepPage", "SweepLargePage"}
Constructed == {"queued", "large_loop", "large_sweep", "large_free", "loop",
                "sweep", "free", "notify_lock", "exit_isolate", "done_lock"}

(* C6: with one task in the cycle, a thread that reads tasks() and phase() *)
(* inside the monitor sees 0 and a phase that is not kSweeping before the  *)
(* constructor has run, 1 and kSweeping from the constructor's return to   *)
(* the task's completion, and 0 and kDone afterwards, never 0 with         *)
(* kSweeping; the count is 1 before Run begins and before a page is swept; *)
(* the assertion at completion finds kSweeping.                            *)
C6_PhaseProtocolUnderMonitor ==
  /\ mut.pc = "locked" =>
       \/ task[1].pc \in {"new", "ctor_lock"}
            /\ tasks = 0 /\ phase = "kMarking"
       \/ task[1].pc \in Constructed /\ tasks = 1 /\ phase = "kSweeping"
       \/ task[1].pc = "done" /\ tasks = 0 /\ phase = "kDone"
  /\ task[1].pc \in {"new", "ctor_lock", "ctor"} =>
       tasks = 0 /\ entry = <<>> /\ task[1].log = <<>>
  /\ task[1].pc = "queued" => tasks = 1 /\ entry = <<>>
  /\ task[1].pc = "finish_phase" => tasks = 0 /\ phase = "kSweeping"
  /\ task[1].pc # "fatal"

C6_Witness ==
  /\ mut.pc = "locked"
  /\ task[1].pc = "sweep"
  /\ Len(entry) >= 2
  /\ tasks = 1
  /\ phase = "kSweeping"

(* C7: with several tasks outstanding, outside the monitor's critical      *)
(* sections the phase is never kDone while tasks() > 0, tasks() is never   *)
(* negative, and every task reaches its completion assertion with the      *)
(* phase kSweeping.                                                        *)
C7_DoneOnlyWhenLastTaskFinishes ==
  /\ tasks >= 0
  /\ lock = NULL => (phase = "kDone" => tasks = 0)
  /\ \A t \in Tasks : task[t].pc = "finish_phase" => phase = "kSweeping"

(* C9: when the task is done, every page of the two snapshot ranges has    *)
(* been swept exactly once; an ordinary page has been passed to FreePage   *)
(* exactly when it held no marked object, a large page to FreeLargePage    *)
(* exactly when its primary object was unmarked and to TruncateLargePage   *)
(* otherwise; at no time has a page that held a marked object been         *)
(* released.                                                               *)
C9_OneOutcomePerPage ==
  /\ \A p \in DOMAIN pages :
       (pages[p].state = "released"
          \/ EventsOf(1, {"FreePage", "FreeLargePage"}, p) # {})
       => (Swept(p) /\ ~HadMarked(p))
  /\ task[1].pc = "done" =>
       \A p \in Snapshot :
         /\ Swept(p)
         /\ Cardinality(EventsOf(1, Sweeps, p)) = 1
         /\ Cardinality({k \in 1..Len(entry) : entry[k].page = p}) = 1
         /\ IF pages[p].large
              THEN /\ EventsOf(1, {"SweepPage", "FreePage"}, p) = {}
                   /\ Cardinality(EventsOf(1, {"FreeLargePage"}, p)) =
                        (IF PrimaryMarked(p) THEN 0 ELSE 1)
                   /\ Cardinality(EventsOf(1, {"TruncateLargePage"}, p)) =
                        (IF PrimaryMarked(p) THEN 1 ELSE 0)
                   /\ (pages[p].state = "released") <=> ~PrimaryMarked(p)
              ELSE /\ EventsOf(1, {"SweepLargePage", "FreeLargePage",
                                   "TruncateLargePage"}, p) = {}
                   /\ Cardinality(EventsOf(1, {"FreePage"}, p)) =
                        (IF HadMarked(p) THEN 0 ELSE 1)
                   /\ (pages[p].state = "released") <=> ~HadMarked(p)

C9_Witness ==
  /\ task[1].pc = "done"
  /\ \E p, q, r \in Snapshot :
        /\ ~pages[p].large /\ pages[p].state = "released"
        /\ ~pages[q].large /\ pages[q].state = "linked"
        /\ pages[r].large /\ pages[r].truncated > 0

\* after the sweep of a page for which signalled holds, the task signals
\* the monitor, inside it, before it sweeps another page or leaves the
\* isolate
NotifiedAfter(signalled) ==
  LET log == task[1].log
  IN \A i \in 1..Len(log) : \A j \in 1..Len(log) :
       (/\ log[i].op \in signalled
        /\ i < j
        /\ log[j].op \in Sweeps \cup {"Exit"})
       => \E k \in (i + 1)..(j - 1) :
            /\ log[k].op = "Notify"
            /\ log[k].page = log[i].page
            /\ log[k].held

(* C10 as stated: after every page it has processed, of the large range    *)
(* and of the ordinary range, the task signals the monitor before it goes  *)
(* on to the next page.                                                    *)
C10_NotifyAfterEveryPage == NotifiedAfter(Sweeps)

(* C10 as amended: after every page of the ordinary range the task signals *)
(* the monitor, once, before it goes on to the next page; it makes no      *)
(* signal for a page of the large range.                                   *)
C10_NotifyAfterEveryOrdinaryPage ==
  /\ NotifiedAfter({"SweepPage"})
  /\ \A p \in DOMAIN pages :
       /\ Cardinality(EventsOf(1, {"Notify"}, p)) <= 1
       /\ pages[p].large => EventsOf(1, {"Notify"}, p) = {}

C10_Witness ==
  /\ task[1].pc = "done"
  /\ \E p, q, r \in Snapshot :
        /\ p # q
        /\ EventsOf(1, {"Notify"}, p) # {} /\ pages[p].state = "released"
        /\ EventsOf(1, {"Notify"}, q) # {} /\ pages[q].state = "linked"
        /\ pages[r].large

----------------------------------------------------------------------------
(* The order of the scan of a page, the insertions of its ranges and its   *)
(* release.                                                                *)

\* the ranges of page p that the free list has been given
RangesOf(p) == {k \in 1..Len(freelist) : PageOf(freelist[k].addr) = p}

\* the scan of page p has reached end and recorded used_in_bytes
ScanCompleted(p) == Swept(p) /\ (sw.page = p => sw.pc = "done")

\* the scan of page p has begun and has not returned
ScanInProgress(p) ==
  /\ sw.fn = "SweepPage"
  /\ sw.page = p
  /\ \E t \in Tasks : task[t].pc = "sweeping"

\* page p is released, or its release has been requested, only once its
\* scan has completed and SweepPage has returned
ReleasedAfterScan ==
  \A p \in DOMAIN pages :
    (pages[p].state = "released"
       \/ EventsOf(1, {"FreePage", "FreeLargePage"}, p) # {})
    => /\ ScanCompleted(p)
       /\ ~ScanInProgress(p)
       /\ \E i \in EventsOf(1, Sweeps, p) :
            \A j \in EventsOf(1, {"FreePage", "FreeLargePage"}, p) : i < j

(* C11 as stated: a page is released, and a range of a page is in the free *)
(* list, only when the scan of that page has completed: the scan position  *)
(* has reached end and used_in_bytes has been recorded.                    *)
C11_ReleaseAndInsertionAfterScan ==
  /\ ReleasedAfterScan
  /\ \A p \in DOMAIN pages : RangesOf(p) # {} => ScanCompleted(p)

(* C11 as amended: a page is released only when its scan has completed and *)
(* SweepPage has returned; a range of a page is in the free list only once *)
(* the scan of that page has begun, and while the scan is going on every   *)
(* such range lies inside the object area below the scan position.         *)
C11_ReleaseAfterScanInsertionBehindScan ==
  /\ ReleasedAfterScan
  /\ \A p \in DOMAIN pages : \A k \in RangesOf(p) :
       /\ Swept(p)
       /\ object_start(p) <= freelist[k].addr
       /\ freelist[k].addr + freelist[k].size <= object_end(p, pages[p])
       /\ ScanInProgress(p) =>
            freelist[k].addr + freelist[k].size <= sw.current

\* a range of a page is in the free list while the scan of the page has
\* objects left to read; an earlier page has been released
C11_Witness ==
  \E p \in DOMAIN pages :
    /\ ScanInProgress(p)
    /\ sw.pc = "loop"
    /\ sw.current < sw.end
    /\ RangesOf(p) # {}
    /\ \E q \in DOMAIN pages : q # p /\ ~pages[q].large
                               /\ pages[q].state = "released"

----------------------------------------------------------------------------
(* Completion of the task. *)

(* C12: under fair scheduling a task that SweepConcurrent has made runs to *)
(* its completion whatever the mutator does: it never stops at a failed    *)
(* assertion, and it reaches the end of Run with tasks() back at 0 and the *)
(* phase kDone; a mutator that waits on the monitor is woken and goes on   *)
(* with the phase kDone; once done, the task stays done.                   *)
C12_TaskRunsToCompletion ==
  /\ [](task[1].pc # "fatal")
  /\ (task[1].pc = "ctor_lock")
       ~> (task[1].pc = "done" /\ tasks = 0 /\ phase = "kDone")
  /\ (mut.pc = "waiting") ~> (mut.pc = "run" /\ phase = "kDone")
  /\ [][task[1].pc = "done" => task'[1].pc = "done"]_vars

\* the task is done over a heap the mutator has appended to, and the
\* NotifyAll has woken the waiting mutator
C12_Witness ==
  /\ task[1].pc = "done"
  /\ phase = "kDone"
  /\ tasks = 0
  /\ mut.pc = "woken"
  /\ mut.appended > 0
  /\ Cardinality(Snapshot) >= 2

\* the positions of Run between EnterIsolateAsHelper and
\* ExitIsolateAsHelper, where the pages are read and written
InIsolate == {"large_loop", "large_sweep", "large_sweeping", "large_free",
              "loop", "sweep", "sweeping", "free", "notify_lock", "notify",
              "exit_isolate"}

\* the positions of Run behind ExitIsolateAsHelper
Completing == {"done_lock", "finish", "finish_phase", "done"}

PageOps == {"SweepPage", "SweepLargePage", "FreePage", "FreeLargePage",
            "TruncateLargePage"}

(* C13: the task has left the isolate before it takes the monitor for its  *)
(* completion: whenever the phase is kDone, or tasks() is back at 0 after  *)
(* the constructor, the task is not attached; a sweeper call is in         *)
(* progress, and a page is swept, released or truncated, only while the    *)
(* task is attached, after Enter and before Exit; the NotifyAll comes      *)
(* after Exit.                                                             *)
C13_DetachedBeforeCompletion ==
  LET log == task[1].log
      at(op) == {i \in 1..Len(log) : log[i].op = op}
  IN /\ task[1].pc \in Completing => ~task[1].attached
     /\ phase = "kDone" => ~task[1].attached
     /\ (tasks = 0 /\ task[1].pc \notin {"new", "ctor_lock", "ctor"})
          => ~task[1].attached
     /\ task[1].pc \in InIsolate <=> task[1].attached
     /\ Running(sw) => task[1].attached
     /\ \A i \in 1..Len(log) :
          /\ log[i].op \in PageOps \cup {"Notify"} =>
               /\ \E e \in at("Enter") : e < i
               /\ \A x \in at("Exit") : i < x
          /\ log[i].op = "NotifyAll" => \E x \in at("Exit") : x < i

C13_Witness ==
  /\ task[1].pc = "done"
  /\ phase = "kDone"
  /\ tasks = 0
  /\ ~task[1].attached
  /\ \E i, j, k \in 1..Len(task[1].log) :
        /\ i < j /\ j < k
        /\ task[1].log[i].op = "FreePage"
        /\ task[1].log[j].op = "Exit"
        /\ task[1].log[k].op = "NotifyAll"

----------------------------------------------------------------------------
(* The reads and writes SweepPage and SweepLargePage make on a page. *)

\* the calls of IsMarked the call in progress has made on object i of the
\* page, by the blocks of ats
ReadsOf(i, ats) ==
  {k \in 1..Len(sw.mark_reads) :
     /\ sw.mark_reads[k].addr = AddrOf(sw.start, ThisEntry.objs, i)
     /\ sw.mark_reads[k].at \in ats}

\* object i directly follows an unmarked object
FollowsGarbage(objs, i) == i > 1 /\ ~objs[i - 1].marked

(* C14 as stated: when SweepPage returns it has read the mark bit of every *)
(* object that was marked exactly once.                                    *)
C14_LiveMarkReadOnce ==
  SweptPage =>
    \A i \in 1..Len(ThisEntry.objs) :
      ThisEntry.objs[i].marked =>
        Cardinality(ReadsOf(i, {"loop", "extend"})) = 1

(* C14 as amended: when SweepPage returns it has read the mark bit of      *)
(* every object that was marked exactly once at the head of the scan loop, *)
(* where it clears it, and once more before that, as the end of a garbage  *)
(* run, exactly when the object directly follows an unmarked object; it    *)
(* has read the mark bit of every unmarked object exactly once.            *)
C14_LiveMarkReadOnceOrTwice ==
  SweptPage =>
    \A i \in 1..Len(ThisEntry.objs) :
      LET objs == ThisEntry.objs
      IN IF objs[i].marked
           THEN /\ Cardinality(ReadsOf(i, {"loop"})) = 1
                /\ Cardinality(ReadsOf(i, {"extend"})) =
                     (IF FollowsGarbage(objs, i) THEN 1 ELSE 0)
                /\ \A k \in ReadsOf(i, {"extend"}) :
                     \A l \in ReadsOf(i, {"loop"}) : k < l
           ELSE Cardinality(ReadsOf(i, {"loop", "extend"})) = 1

\* a marked object behind a garbage run has been read twice, a marked
\* object at the start of the page once
C14_Witness ==
  /\ SweptPage
  /\ Len(ThisEntry.objs) >= 3
  /\ ThisEntry.objs[1].marked
  /\ Cardinality(ReadsOf(1, {"loop", "extend"})) = 1
  /\ \E i \in 2..Len(ThisEntry.objs) :
        /\ ThisEntry.objs[i].marked
        /\ Cardinality(ReadsOf(i, {"loop", "extend"})) = 2

\* the words of object i of a tiling
ObjectWords(objs, i) ==
  {w \in 1..Words(objs) :
     /\ SumSizes(objs, i - 1) < w * kWordSize
     /\ w * kWordSize <= SumSizes(objs, i)}

\* the words some sweep of the page found in a garbage run (on a large
\* page: in a trailing filler)
FoundGarbage(w) ==
  \E k \in 1..Len(entry) :
    IF pages[ThePage].large
      THEN \E i \in 2..Len(entry[k].objs) : w \in ObjectWords(entry[k].objs, i)
      ELSE \E r \in GarbageRuns(entry[k].objs) : w \in RunWords(entry[k].objs, r)

(* C15: a sweep changes nothing of an object that was marked but its mark  *)
(* bit: the sizes, and so the addresses, of the objects stay as they were, *)
(* the words of an object that was marked on entry are as the allocator    *)
(* wrote them, and on a large page so are the words of the primary object; *)
(* every word the sweep has written lies in a garbage run (a trailing      *)
(* filler), holds the break filler on an executable page and the zap byte  *)
(* elsewhere; a free block that has been filled is a garbage run inside    *)
(* the object area; without DEBUG no word of a data page is written.       *)
C15_LiveObjectsUntouched ==
  LET pg == pages[ThePage]
  IN /\ Len(entry) >= 1 =>
          /\ Len(pg.objs) = Len(ThisEntry.objs)
          /\ \A i \in 1..Len(pg.objs) :
               /\ pg.objs[i].size = ThisEntry.objs[i].size
               /\ ThisEntry.objs[i].marked =>
                    \A w \in ObjectWords(pg.objs, i) : pg.mem[w] = "orig"
          /\ pg.large => \A w \in ObjectWords(pg.objs, 1) : pg.mem[w] = "orig"
     /\ \A w \in DOMAIN pg.mem :
          pg.mem[w] # "orig" =>
            /\ FoundGarbage(w)
            /\ pg.mem[w] = (IF pg.type = "kExecutable" THEN "trap" ELSE "zap")
            /\ pg.type = "kExecutable" \/ debug
     /\ (sw.fn = "SweepPage" /\ sw.pc = "insert") =>
          /\ sw.start <= sw.current
          /\ sw.current + sw.obj_size <= sw.end
          /\ \E r \in GarbageRuns(ThisEntry.objs) :
               /\ sw.current = RunAddr(ThisEntry.objs, r)
               /\ sw.obj_size = RunSize(ThisEntry.objs, r)

\* a DEBUG sweep of a data page has zapped a garbage run between two
\* marked objects
C15_Witness ==
  /\ SweptPage
  /\ debug
  /\ pages[ThePage].type = "kData"
  /\ Len(ThisEntry.objs) = 3
  /\ ThisEntry.objs[1].marked
  /\ ~ThisEntry.objs[2].marked
  /\ ThisEntry.objs[3].marked
  /\ \A w \in ObjectWords(ThisEntry.objs, 2) : pages[ThePage].mem[w] = "zap"
  /\ \A w \in ObjectWords(ThisEntry.objs, 3) : pages[ThePage].mem[w] = "orig"

----------------------------------------------------------------------------
(* The walk of the two ranges. *)

\* the pages the mutator has appended since the snapshot
Appended == DOMAIN pages \ Snapshot

AllOps == PageOps \cup {"Notify"}

(* C16: the task holds no page but a page of the snapshot: its page, its   *)
(* next page and its predecessor are snapshot pages or NULL, and the next  *)
(* page it has taken at the last page of a range is NULL whatever that     *)
(* page's next link holds; a page the mutator has appended is never swept, *)
(* truncated, released, signalled for or written; no page is swept after   *)
(* the last page of its range.                                             *)
C16_WalkBoundedBySnapshot ==
  LET tk == task[1]
      log == tk.log
  IN /\ {tk.page, tk.next_page, tk.prev_page} \subseteq Snapshot \cup {NULL}
     /\ (tk.pc \in {"large_sweep", "large_free"} /\ tk.page = tk.large_last_)
          => tk.next_page = NULL
     /\ (tk.pc \in {"sweep", "free", "notify_lock", "notify"}
           /\ tk.page = tk.last_)
          => tk.next_page = NULL
     /\ \A p \in Appended :
          /\ ~Swept(p)
          /\ EventsOf(1, AllOps, p) = {}
          /\ pages[p].state = "linked"
          /\ pages[p].truncated = 0
          /\ pages[p].objs = Shape(<<FALSE>>)
          /\ \A w \in DOMAIN pages[p].mem : pages[p].mem[w] = "orig"
     /\ \A i \in 1..Len(log) : \A j \in 1..Len(log) :
          (i < j /\ log[i].op = log[j].op /\ log[i].op \in Sweeps)
          => log[i].page \notin {tk.last_, tk.large_last_}

\* the task is at the last page of the ordinary range, whose next link
\* now leads to a page the mutator has appended
C16_Witness ==
  /\ task[1].pc = "sweep"
  /\ task[1].page = task[1].last_
  /\ pages[task[1].last_].next \in Appended
  /\ task[1].next_page = NULL
  /\ Cardinality(OrdinarySnapshot) >= 2

----------------------------------------------------------------------------
(* The monitor tasks_lock(). *)

ListOps == {"FreePage", "FreeLargePage", "TruncateLargePage"}

\* this step of task t calls FreePage, FreeLargePage or TruncateLargePage
ListRequest(t) ==
  /\ Len(task'[t].log) = Len(task[t].log) + 1
  /\ task'[t].log[Len(task'[t].log)].op \in ListOps

\* this step writes phase or tasks, and the thread inside the monitor is a
\* task that takes the step
WriteUnderMonitor ==
  (phase' # phase \/ tasks' # tasks)
  => (lock \in Tasks /\ task'[lock] # task[lock])

(* C17 as stated: every step that writes phase or tasks(), and every step  *)
(* in which the task calls FreePage, FreeLargePage or TruncateLargePage,   *)
(* is taken while the task is inside the monitor.                          *)
C17_WritesAndListRequestsUnderMonitor ==
  [][/\ WriteUnderMonitor
     /\ \A t \in Tasks : ListRequest(t) => lock = t]_vars

(* C17 as amended: every step that writes phase or tasks() is taken while  *)
(* the task is inside the monitor; the task calls FreePage, FreeLargePage  *)
(* and TruncateLargePage while it is not inside the monitor.               *)
C17_WritesUnderMonitorListRequestsOutside ==
  [][/\ WriteUnderMonitor
     /\ \A t \in Tasks : ListRequest(t) => lock # t]_vars

\* the task is inside the monitor to write the phase, after it has released
\* an ordinary page, released a large page and truncated another outside it
C17_Witness ==
  /\ task[1].pc = "finish_phase"
  /\ lock = 1
  /\ tasks = 0
  /\ \A op \in ListOps :
       \E i \in 1..Len(task[1].log) :
          task[1].log[i].op = op /\ ~task[1].log[i].held

----------------------------------------------------------------------------
(* What the task passes to the page-list primitives. *)

(* C18: for every large page whose primary object was marked, the length   *)
(* the task passes to TruncateLargePage is that object's size in bytes,    *)
(* and the page is truncated to it, whatever fillers follow; the shift to  *)
(* words and back gives every positive multiple of the word size again.    *)
C18_TruncateToPrimarySize ==
  /\ \A i \in 1..Len(task[1].log) :
       LET e == task[1].log[i]
       IN e.op = "TruncateLargePage" =>
            /\ Swept(e.page)
            /\ PrimaryMarked(e.page)
            /\ e.bytes = EntryOf(e.page).objs[1].size
            /\ e.bytes > 0
            /\ pages[e.page].truncated = e.bytes
  /\ \A p \in DOMAIN pages : pages[p].truncated \in {0, pages[p].objs[1].size}
  /\ \A w \in 1..(MaxObjs * MaxObjWords) :
       ShiftLeft(ShiftRight(w * kWordSize, kWordSizeLog2), kWordSizeLog2)
         = w * kWordSize

\* a large page with a marked primary object and a trailing filler has
\* been truncated to the primary object
C18_Witness ==
  \E p \in LargeSnapshot :
    /\ Len(pages[p].objs) = 2
    /\ EventsOf(1, {"TruncateLargePage"}, p) # {}
    /\ pages[p].truncated = pages[p].objs[1].size
    /\ pages[p].truncated < SumSizes(pages[p].objs, Len(pages[p].objs))
    /\ pages[p].state = "linked"

(* C19: in the walk of the ordinary range, between the sweep of a page    *)
(* and the sweep of the next one (or the exit from the isolate) the task   *)
(* signals the monitor exactly once, for that page and from inside the     *)
(* monitor, whether the page was kept or released; FreePage is called on   *)
(* a page before the signal for it, and after its sweep; while the task    *)
(* signals it is inside the monitor.                                       *)
C19_SignalAfterEachOrdinaryPage ==
  LET log == task[1].log
      later(i) == {j \in (i + 1)..Len(log) :
                     log[j].op \in Sweeps \cup {"Exit"}}
      upto(i) == IF later(i) = {} THEN Len(log) ELSE Min(later(i)) - 1
      signals(i) == {k \in (i + 1)..upto(i) : log[k].op = "Notify"}
  IN /\ task[1].pc = "notify" => lock = 1
     /\ \A i \in 1..Len(log) :
          log[i].op = "SweepPage" =>
            /\ Cardinality(signals(i)) <= 1
            /\ later(i) # {} => Cardinality(signals(i)) = 1
            /\ \A k \in signals(i) : log[k].page = log[i].page /\ log[k].held
            /\ \A f \in EventsOf(1, {"FreePage"}, log[i].page) :
                 /\ i < f
                 /\ f <= upto(i)
                 /\ \A k \in signals(i) : f < k
            /\ (later(i) # {} /\ ~HadMarked(log[i].page))
                 => EventsOf(1, {"FreePage"}, log[i].page) # {}

\* a released page and then a kept page have each been signalled for, and
\* the task is about to scan a third page
C19_Witness ==
  /\ task[1].pc = "sweep"
  /\ \E i, j, k, l, n \in 1..Len(task[1].log) :
        LET log == task[1].log
        IN /\ i < j /\ j < k /\ k < l /\ l < n
           /\ log[i].op = "SweepPage"
           /\ log[j].op = "FreePage" /\ log[j].page = log[i].page
           /\ log[k].op = "Notify" /\ log[k].page = log[i].page
           /\ log[l].op = "SweepPage" /\ HadMarked(log[l].page)
           /\ log[n].op = "Notify" /\ log[n].page = log[l].page

\* the pages of a list from head along the next links
RECURSIVE Chain(_, _)
Chain(head, n) ==
  IF head = NULL \/ n = 0 THEN <<>>
  ELSE <<head>> \o Chain(pages[head].next, n - 1)

\* the pages of S in ascending order
RECURSIVE Ascending(_)
Ascending(S) == IF S = {} THEN <<>> ELSE <<Min(S)>> \o Ascending(S \ {Min(S)})

\* the pages of one list that have not been released
Linked(large) ==
  {p \in DOMAIN pages : pages[p].large = large /\ pages[p].state = "linked"}

\* the snapshot pages before p in p's range that the task has kept
KeptBefore(p) ==
  {q \in Snapshot :
     /\ q < p
     /\ pages[q].large = pages[p].large
     /\ Swept(q)
     /\ IF pages[q].large THEN PrimaryMarked(q) ELSE HadMarked(q)}

(* C20: the predecessor the task passes to FreePage or FreeLargePage is    *)
(* the nearest earlier page of the same range that it has kept, or NULL if *)
(* it has kept none; it is a page of the same list that is still linked,   *)
(* never one of the other list; so each list, followed from its head along *)
(* the next links, holds exactly its pages that have not been released, in *)
(* order, and ends at its tail.                                            *)
C20_PredecessorIsNearestKeptPage ==
  /\ \A i \in 1..Len(task[1].log) :
       LET e == task[1].log[i]
       IN e.op \in {"FreePage", "FreeLargePage"} =>
            /\ e.prev = (IF KeptBefore(e.page) = {} THEN NULL
                         ELSE Max(KeptBefore(e.page)))
            /\ e.prev # NULL =>
                 /\ pages[e.prev].state = "linked"
                 /\ pages[e.prev].large = pages[e.page].large
  /\ task[1].pc \in {"loop", "sweep", "free", "notify_lock", "notify"} =>
       task[1].prev_page \in OrdinarySnapshot \cup {NULL}
  /\ Chain(lists.pages_, Cardinality(DOMAIN pages) + 1)
       = Ascending(Linked(FALSE))
  /\ Chain(lists.large_pages_, Cardinality(DOMAIN pages) + 1)
       = Ascending(Linked(TRUE))
  /\ lists.pages_tail_ =
       (IF Linked(FALSE) = {} THEN NULL ELSE Max(Linked(FALSE)))
  /\ lists.large_pages_tail_ =
       (IF Linked(TRUE) = {} THEN NULL ELSE Max(Linked(TRUE)))

\* the first page was kept and the next two released: the second FreePage
\* is given the first page, over the page released in between
C20_Witness ==
  /\ \E i \in 1..Len(task[1].log) :
        LET e == task[1].log[i]
        IN /\ e.op = "FreePage"
           /\ e.prev # NULL
           /\ e.prev + 1 < e.page
           /\ pages[e.prev + 1].state = "released"
  /\ task[1].pc = "done"

----------------------------------------------------------------------------
(* The sweeper and the ranges it has handed to the free list. *)

\* addr lies in a range the free list has been given
Handed(addr) ==
  \E k \in 1..Len(freelist) :
    freelist[k].addr <= addr /\ addr < freelist[k].addr + freelist[k].size

\* the headers this step of the sweeper reads: the calls of IsMarked it
\* adds (HeapSize is read from the same headers)
ReadInStep ==
  {sw'.mark_reads[k].addr :
     k \in (Len(sw.mark_reads) + 1)..Len(sw'.mark_reads)}

\* the addresses this step of the sweeper writes: the words it fills and
\* the headers whose mark bit it clears
WrittenInStep ==
  LET p == sw.page
  IN {object_start(p) + (w - 1) * kWordSize :
        w \in {w \in DOMAIN pages[p].mem : pages'[p].mem[w] # pages[p].mem[w]}}
     \cup {AddrOf(object_start(p), pages[p].objs, i) :
             i \in {i \in 1..Len(pages[p].objs) :
                      pages'[p].objs[i] # pages[p].objs[i]}}

\* this step is a block of the sweeper call in progress
SweeperStep == Running(sw) /\ sw' # sw

\* the words of the range the mutator has allocated into
AllocatedWords(k) ==
  LET r == freelist[k]
      p == PageOf(r.addr)
  IN {<<p, w>> : w \in {w \in DOMAIN pages[p].mem :
                          /\ r.addr < object_start(p) + w * kWordSize
                          /\ object_start(p) + (w - 1) * kWordSize
                               < r.addr + r.size}}

(* C21: no block of the sweeper reads a header, clears a mark bit or fills *)
(* a word at an address inside a range that the free list had been given   *)
(* before the block; so every word of a range the mutator has allocated    *)
(* into, also while the scan of the same page goes on, holds what the      *)
(* mutator wrote.                                                          *)
C21_HandedRangesNotTouched ==
  /\ [][SweeperStep =>
          \A a \in ReadInStep \cup WrittenInStep : ~Handed(a)]_vars
  /\ [](\A k \in mut.allocated :
          \A c \in AllocatedWords(k) : pages[c[1]].mem[c[2]] = "alloc")

\* the mutator has allocated into the first range of a page, and the scan
\* of that page has since read the marked object behind it and handed over
\* a second range
C21_Witness ==
  \E k \in mut.allocated :
    LET p == PageOf(freelist[k].addr)
    IN /\ ScanInProgress(p)
       /\ Cardinality(RangesOf(p)) = 2
       /\ k = Min(RangesOf(p))
       /\ \E j \in 1..Len(sw.mark_reads) :
             sw.mark_reads[j].addr >= freelist[k].addr + freelist[k].size
       /\ \A c \in AllocatedWords(k) : pages[c[1]].mem[c[2]] = "alloc"

----------------------------------------------------------------------------
(* The task and the pages it has released. *)

\* the events in which the task reads or writes a page, or passes it to
\* the coordinator; Notify names the page it follows and touches none
Accesses == PageOps \cup {"next", "type"}

Releases == {"FreePage", "FreeLargePage"}

(* C22: once the task has called FreePage or FreeLargePage on a page it    *)
(* does not read the page's next link or type, sweep it, truncate it,      *)
(* release it again or pass it as a predecessor; the page's next link and  *)
(* type are read before the page is swept, and the page is swept before it *)
(* is released; a sweeper call in progress is on a page that has not been  *)
(* released, and so is every page the task is about to read.               *)
C22_NoAccessAfterRelease ==
  LET log == task[1].log
  IN /\ \A i \in 1..Len(log) : \A j \in 1..Len(log) :
          (i < j /\ log[i].op \in Releases /\ log[j].op \in Accesses)
          => (log[j].page # log[i].page /\ log[j].prev # log[i].page)
     /\ \A i \in 1..Len(log) : \A j \in 1..Len(log) :
          (log[i].page = log[j].page /\ log[i].page # NULL) =>
            /\ (log[i].op \in {"next", "type"} /\ log[j].op \in Sweeps)
                 => i < j
            /\ (log[i].op \in Sweeps /\ log[j].op \in Releases) => i < j
     /\ Running(sw) => pages[sw.page].state = "linked"
     /\ (task[1].pc \in {"large_loop", "large_sweep", "large_sweeping",
                         "large_free", "loop", "sweep", "sweeping", "free"}
           /\ task[1].page # NULL)
          => pages[task[1].page].state = "linked"
     /\ (task[1].pc \in InIsolate /\ task[1].next_page # NULL)
          => pages[task[1].next_page].state = "linked"
     /\ (task[1].pc \in InIsolate /\ task[1].prev_page # NULL)
          => pages[task[1].prev_page].state = "linked"

\* the task has released a large page and an ordinary page that was not
\* the last of its range, has read the next links before the sweeps, and
\* has gone on to sweep the page behind the released one
C22_Witness ==
  LET log == task[1].log
  IN /\ \E p \in LargeSnapshot : pages[p].state = "released"
     /\ \E h, i, j, k \in 1..Len(log) :
          /\ h < i /\ i < j /\ j < k
          /\ log[h].op = "next"
          /\ log[i].op = "SweepPage" /\ log[i].page = log[h].page
          /\ log[j].op = "FreePage" /\ log[j].page = log[h].page
          /\ log[k].op = "SweepPage" /\ log[k].page # log[h].page

============================================================================
